---- MODULE Spec2Model ----
(***************************************************************************)
(* Model of the two services of scene-designer's development tooling:      *)
(*   logstream_server.py  - the Flask endpoint POST /logstream             *)
(*   start_http.py        - the restricted static file server              *)
(* Text is modelled as sequences of one-character strings, so that         *)
(* startswith, split, strip, lower, upper and the f-string formatting are  *)
(* computed character by character.                                        *)
(***************************************************************************)
EXTENDS Integers, Sequences, FiniteSets, TLC

VARIABLES
    \* ---- logstream_server.py ----
    LOGSTREAM_TOKEN,        \* os.environ.get("LOGSTREAM_SECRET"): None or text
    LOGSTREAM_TOKEN_CHECK,  \* os.environ.get("LOGSTREAM_TOKEN_CHECK", "1")
    logfile,                \* content of LOG_FILE, a sequence of characters
    writes,                 \* number of write operations the file has taken
    last,                   \* the last request of /logstream and its answer
    nreq,                   \* requests answered so far
    n204,                   \* 204 answers so far
    threads,                \* per worker thread: the request it is handling
    \* ---- start_http.py ----
    ALLOWED_FILES,          \* the module-level allow-list
    srvState,               \* "Running", "ShuttingDown", "Stopped"
    clock,                  \* minutes since the timer thread started sleeping
    fs,                     \* the served directory: name -> "none"/"file"/"dir"
    browserLog,             \* content of LOGFILE: the entries appended
    lastResp,               \* the last request of the static server, its answer
    handled                 \* requests the static server has handled

lsVars == <<LOGSTREAM_TOKEN, LOGSTREAM_TOKEN_CHECK, logfile, writes, last,
            nreq, n204, threads>>
httpVars == <<ALLOWED_FILES, srvState, clock, fs, browserLog, lastResp, handled>>
vars == <<LOGSTREAM_TOKEN, LOGSTREAM_TOKEN_CHECK, logfile, writes, last,
          nreq, n204, threads,
          ALLOWED_FILES, srvState, clock, fs, browserLog, lastResp, handled>>

(***************************************************************************)
(* Bounds of the model.                                                    *)
(***************************************************************************)
MaxRequests == 2      \* requests of /logstream answered in one behaviour
MaxThreads == 2       \* requests of /logstream handled at the same time
MaxShort == 2         \* characters a short write may stop after
MaxHandled == 2       \* requests the static server handles in one behaviour
MaxClock == 6         \* minutes the clock is followed

(***************************************************************************)
(* Text.                                                                   *)
(***************************************************************************)
\* Python's None, kept apart from every text (texts hold one-character items).
None == <<"<None>">>

NL == <<"\n">>

Whitespace == {" ", "\t", "\n", "\r"}

UpperAlpha == <<"A","B","C","D","E","F","G","H","I","J","K","L","M",
                "N","O","P","Q","R","S","T","U","V","W","X","Y","Z">>
LowerAlpha == <<"a","b","c","d","e","f","g","h","i","j","k","l","m",
                "n","o","p","q","r","s","t","u","v","w","x","y","z">>

LowerChar(c) ==
    IF \E i \in 1..26 : UpperAlpha[i] = c
    THEN LowerAlpha[CHOOSE i \in 1..26 : UpperAlpha[i] = c]
    ELSE c

UpperChar(c) ==
    IF \E i \in 1..26 : LowerAlpha[i] = c
    THEN UpperAlpha[CHOOSE i \in 1..26 : LowerAlpha[i] = c]
    ELSE c

\* str.lower()
Lower(s) == [i \in 1..Len(s) |-> LowerChar(s[i])]

\* str.upper()
Upper(s) == [i \in 1..Len(s) |-> UpperChar(s[i])]

\* str.strip(): leading and trailing whitespace removed
Strip(s) ==
    LET keep == {i \in 1..Len(s) : s[i] \notin Whitespace}
    IN  IF keep = {} THEN <<>>
        ELSE LET lo == CHOOSE i \in keep : \A j \in keep : i <= j
                 hi == CHOOSE i \in keep : \A j \in keep : j <= i
             IN  SubSeq(s, lo, hi)

\* str.startswith(prefix)
StartsWith(s, prefix) ==
    /\ Len(s) >= Len(prefix)
    /\ SubSeq(s, 1, Len(prefix)) = prefix

\* s.split(" ", 1)[1]: what follows the first space (s holds a space)
AfterFirstSpace(s) ==
    LET sp == CHOOSE i \in 1..Len(s) :
                  /\ s[i] = " "
                  /\ \A j \in 1..(i - 1) : s[j] # " "
    IN  SubSeq(s, sp + 1, Len(s))

\* number of newline characters of a text: the lines it ends
NumLines(s) == Cardinality({i \in 1..Len(s) : s[i] = "\n"})

(***************************************************************************)
(* logstream_server.py: configuration read from the environment.           *)
(***************************************************************************)
\* os.environ.get(name, default) of a variable that is unset (None) or set
EnvGet(value, default) == IF value = None THEN default ELSE value

\* Values of LOGSTREAM_TOKEN_CHECK the environment may hold
ToggleEnv ==
    { None,
      <<"0">>, <<"n","o">>, <<"f","a","l","s","e">>, <<>>,
      <<" ","N","o"," ">>, <<"F","A","L","S","E","\n">>,
      <<"o","f","f">>, <<"n"," ","o">> }

\* Values of LOGSTREAM_SECRET the environment may hold
SecretEnv == { None, <<>>, <<"s","3">>, <<"s"," ","3">> }

\* the tuple of line 14
DisablingValues == { <<"0">>, <<"n","o">>, <<"f","a","l","s","e">>, <<>> }

\* token_check_enabled without .strip()
token_check_enabled_unstripped ==
    Lower(LOGSTREAM_TOKEN_CHECK) \notin DisablingValues

token_check_enabled ==
    Lower(Strip(LOGSTREAM_TOKEN_CHECK)) \notin DisablingValues

\* Python truthiness of LOGSTREAM_TOKEN: neither None nor ""
TokenSet == LOGSTREAM_TOKEN # None /\ LOGSTREAM_TOKEN # <<>>

(***************************************************************************)
(* logstream_server.py: the request.                                       *)
(***************************************************************************)
Bearer == <<"B","e","a","r","e","r"," ">>

\* Authorization headers a request may carry (None: no such header)
AuthHeaders ==
    { None,
      <<"B","e","a","r","e","r">>,
      <<"B","e","a","r","e","r"," ","s","3">>,
      <<"B","e","a","r","e","r"," ","s","4">>,
      <<"B","e","a","r","e","r"," "," ","s","3">>,
      <<"B","e","a","r","e","r"," ","s"," ","3">>,
      <<"b","e","a","r","e","r"," ","s","3">> }

\* request.headers.get("Authorization", "")
HeaderGet(header, default) == IF header = None THEN default ELSE header

\* CheckToken without the comparison of lines 25-27
CheckToken_prefix_only(header) ==
    IF token_check_enabled /\ TokenSet
    THEN IF ~StartsWith(HeaderGet(header, <<>>), Bearer) THEN 401 ELSE 0
    ELSE 0

\* Lines 21-27: 401 when the bearer token is enforced and not presented, 0 when
\* the request goes on.
CheckToken(header) ==
    IF token_check_enabled /\ TokenSet
    THEN LET auth == HeaderGet(header, <<>>)
         IN  IF ~StartsWith(auth, Bearer) THEN 401
             ELSE IF AfterFirstSpace(auth) # LOGSTREAM_TOKEN THEN 401
             ELSE 0
    ELSE 0

\* JSON values as Python holds them after json.loads
JStr(s) == [t |-> "str", s |-> s]
JNull == [t |-> "null", s |-> <<>>]
JInt(digits) == [t |-> "int", s |-> digits]

\* Request bodies, as sent
Bodies ==
    { "",
      "{\"message\": ",
      "[]",
      "{}",
      "{\"timestamp\":\"2024-01-01T00:00:00Z\",\"level\":\"ERROR\",\"message\":\"boom\",\"page\":\"/x\",\"userAgent\":\"UA\"}",
      "{\"message\":\"a\\nb\"}",
      "{\"level\":null,\"message\":5}" }

NoFields == [k \in {} |-> JNull]

\* json.loads of each body: what it parses to, "invalid" when it raises
JsonLoads(raw) ==
    CASE raw = "" -> [t |-> "invalid", d |-> NoFields]
      [] raw = "{\"message\": " -> [t |-> "invalid", d |-> NoFields]
      [] raw = "[]" -> [t |-> "list", d |-> NoFields]
      [] raw = "{}" -> [t |-> "dict", d |-> NoFields]
      [] raw = "{\"timestamp\":\"2024-01-01T00:00:00Z\",\"level\":\"ERROR\",\"message\":\"boom\",\"page\":\"/x\",\"userAgent\":\"UA\"}" ->
            [t |-> "dict",
             d |-> [timestamp |-> JStr(<<"2","0","2","4","-","0","1","-","0","1","T",
                                         "0","0",":","0","0",":","0","0","Z">>),
                    level |-> JStr(<<"E","R","R","O","R">>),
                    message |-> JStr(<<"b","o","o","m">>),
                    page |-> JStr(<<"/","x">>),
                    userAgent |-> JStr(<<"U","A">>)]]
      [] raw = "{\"message\":\"a\\nb\"}" ->
            [t |-> "dict", d |-> [message |-> JStr(<<"a","\n","b">>)]]
      [] raw = "{\"level\":null,\"message\":5}" ->
            [t |-> "dict", d |-> [level |-> JNull, message |-> JInt(<<"5">>)]]

\* get_json(force=True, silent=True) followed by "or {}"
get_json_silent(raw) ==
    IF JsonLoads(raw).t = "invalid"
    THEN [t |-> "dict", d |-> NoFields]
    ELSE JsonLoads(raw)

\* request.get_json(force=True) inside try/except: the parsed body, or
\* "invalid" when parsing raised (answered 400 at line 32)
get_json(raw) == JsonLoads(raw)

\* dict.get(key, default)
Get(d, key, default) == IF key \in DOMAIN d THEN d[key] ELSE default

\* f"{value}": str(value)
Format(v) == IF v.t = "null" THEN <<"N","o","n","e">> ELSE v.s

\* log_line with '' as the default of level
log_line_level_blank(d) ==
    Format(Get(d, "timestamp", JStr(<<>>)))
    \o <<" ","[">> \o Format(Get(d, "level", JStr(<<>>)))
    \o <<"]"," ">> \o Format(Get(d, "message", JStr(<<>>)))
    \o <<" ","|"," ","p","a","g","e","=">> \o Format(Get(d, "page", JStr(<<>>)))
    \o <<" ","|"," ","a","g","e","n","t","=">>
    \o Format(Get(d, "userAgent", JStr(<<>>)))

\* Lines 34-37
log_line(d) ==
    Format(Get(d, "timestamp", JStr(<<>>)))
    \o <<" ","[">> \o Format(Get(d, "level", JStr(<<"I","N","F","O">>)))
    \o <<"]"," ">> \o Format(Get(d, "message", JStr(<<>>)))
    \o <<" ","|"," ","p","a","g","e","=">> \o Format(Get(d, "page", JStr(<<>>)))
    \o <<" ","|"," ","a","g","e","n","t","=">>
    \o Format(Get(d, "userAgent", JStr(<<>>)))

\* AppendFile with the exception swallowed ("except Exception: pass")
AppendFile_swallowed(file, text, fails) ==
    IF fails THEN [ok |-> TRUE, file |-> file, writes |-> 0]
    ELSE [ok |-> TRUE, file |-> file \o text, writes |-> 1]

\* Lines 38-43: open(LOG_FILE, 'a') and f.write(text); fails is whether open
\* or write raises.  ok tells whether the with-block completed.
AppendFile(file, text, fails) ==
    IF fails THEN [ok |-> FALSE, file |-> file, writes |-> 0]
    ELSE [ok |-> TRUE, file |-> file \o text, writes |-> 1]

\* Lines 18-37: the request up to the text it is to append.  status 0: the
\* request goes on to the file; otherwise the answer it ends with.
request_line(header, raw) ==
    LET denied == CheckToken(header)
    IN  IF denied # 0
        THEN [status |-> denied, text |-> <<>>]
        ELSE LET data == get_json(raw)
             IN  IF data.t = "invalid"
                 THEN [status |-> 400, text |-> <<>>]
                 ELSE IF data.t # "dict"
                 \* data.get raises AttributeError: Flask answers 500
                 THEN [status |-> 500, text |-> <<>>]
                 ELSE [status |-> 0, text |-> log_line(data.d) \o NL]

\* Lines 17-45: the answer of one request, and the file after it.
logstream(header, raw, fails, file) ==
    LET p == request_line(header, raw)
    IN  IF p.status # 0
        THEN [status |-> p.status, file |-> file, writes |-> 0]
        ELSE LET w == AppendFile(file, p.text, fails)
             IN  IF w.ok
                 THEN [status |-> 204, file |-> w.file, writes |-> w.writes]
                 ELSE [status |-> 500, file |-> w.file, writes |-> w.writes]

NoRequest == [auth |-> None, body |-> "", fails |-> FALSE, status |-> 0,
              before |-> <<>>]

NoThreads ==
    [t \in 1..MaxThreads |->
        [pc |-> "idle", status |-> 0, text |-> <<>>, pending |-> <<>>,
         short |-> FALSE]]

InitLogstream ==
    /\ LOGSTREAM_TOKEN \in SecretEnv
    /\ LOGSTREAM_TOKEN_CHECK \in {EnvGet(e, <<"1">>) : e \in ToggleEnv}
    /\ logfile = <<>>
    /\ writes = 0
    /\ last = NoRequest
    /\ nreq = 0
    /\ n204 = 0
    /\ threads = NoThreads

\* One request of POST /logstream, from arrival to answer.
Logstream(header, raw, fails) ==
    /\ nreq < MaxRequests
    /\ \E r \in {logstream(header, raw, fails, logfile)} :
           /\ logfile' = r.file
           /\ writes' = writes + r.writes
           /\ last' = [auth |-> header, body |-> raw, fails |-> fails,
                       status |-> r.status, before |-> logfile]
           /\ n204' = IF r.status = 204 THEN n204 + 1 ELSE n204
    /\ nreq' = nreq + 1
    /\ UNCHANGED <<LOGSTREAM_TOKEN, LOGSTREAM_TOKEN_CHECK, threads>>
    /\ UNCHANGED httpVars

(***************************************************************************)
(* logstream_server.py under app.run(): Flask's development server handles  *)
(* each request in a thread of its own.  Lines 38-43 take no lock: the text *)
(* of a request reaches the file through the write calls of its own file    *)
(* object, opened for append; a write call appends what it transfers at the *)
(* end of the file and may transfer less than it was given, and the rest    *)
(* follows in a further call.                                               *)
(***************************************************************************)
ThreadHeaders == { None, <<"B","e","a","r","e","r"," ","s","3">> }

ThreadBodies ==
    { "{\"message\": ", "{}", "{\"message\":\"a\\nb\"}" }

InitThreads ==
    /\ LOGSTREAM_TOKEN = <<"s","3">>
    /\ LOGSTREAM_TOKEN_CHECK = <<"1">>
    /\ logfile = <<>>
    /\ writes = 0
    /\ last = NoRequest
    /\ nreq = 0
    /\ n204 = 0
    /\ threads = NoThreads

\* Lines 18-39 in thread t: the request is checked and parsed, its line is
\* formatted and the file is opened
Accept(t, header, raw, fails) ==
    /\ threads[t].pc = "idle"
    /\ \E p \in {request_line(header, raw)} :
           /\ threads' = [threads EXCEPT ![t] =
              IF p.status # 0
              THEN [@ EXCEPT !.pc = "done", !.status = p.status]
              ELSE IF fails
              THEN [@ EXCEPT !.pc = "done", !.status = 500]
              ELSE [@ EXCEPT !.pc = "writing", !.text = p.text,
                             !.pending = p.text]]
           /\ nreq' = IF p.status # 0 \/ fails THEN nreq + 1 ELSE nreq
    /\ UNCHANGED <<LOGSTREAM_TOKEN, LOGSTREAM_TOKEN_CHECK, logfile, writes,
                   last, n204>>
    /\ UNCHANGED httpVars

\* Line 40 and the flush at the end of the with-block: a write call of thread
\* t that transfers all it was given
WriteAll(t) ==
    /\ threads[t].pc = "writing"
    /\ threads[t].pending # <<>>
    /\ logfile' = logfile \o threads[t].pending
    /\ writes' = writes + 1
    /\ threads' = [threads EXCEPT ![t].pending = <<>>]
    /\ UNCHANGED <<LOGSTREAM_TOKEN, LOGSTREAM_TOKEN_CHECK, last, nreq, n204>>
    /\ UNCHANGED httpVars

\* A write call of thread t that transfers only the first k characters
WriteShort(t, k) ==
    /\ threads[t].pc = "writing"
    /\ ~threads[t].short
    /\ k < Len(threads[t].pending)
    /\ logfile' = logfile \o SubSeq(threads[t].pending, 1, k)
    /\ writes' = writes + 1
    /\ threads' = [threads EXCEPT
                      ![t].pending = SubSeq(@, k + 1, Len(@)),
                      ![t].short = TRUE]
    /\ UNCHANGED <<LOGSTREAM_TOKEN, LOGSTREAM_TOKEN_CHECK, last, nreq, n204>>
    /\ UNCHANGED httpVars

\* Line 45 in thread t: the file is closed and the request answered 204
Answer(t) ==
    /\ threads[t].pc = "writing"
    /\ threads[t].pending = <<>>
    /\ threads' = [threads EXCEPT ![t].pc = "done", ![t].status = 204]
    /\ nreq' = nreq + 1
    /\ n204' = n204 + 1
    /\ UNCHANGED <<LOGSTREAM_TOKEN, LOGSTREAM_TOKEN_CHECK, logfile, writes, last>>
    /\ UNCHANGED httpVars

(***************************************************************************)
(* start_http.py: the restricted static server.                            *)
(***************************************************************************)
TIMEOUT_MINUTES == 5

\* Line 12
AllowList ==
    { "/", "/index.html", "/shapes.js", "/images/mainmenu.png", "/styles.css",
      "/favicon.ico", "/auto.html" }

\* Paths a request may name
RequestPaths ==
    AllowList \cup { "/secret.txt", "/index.html?x=1", "/index.htm", "/log" }

\* Names the served directory may hold, besides the directory "/" itself
FsNames == { "/index.html", "/shapes.js", "/secret.txt" }

\* What the file system holds under a name
Kind(name) == IF name \in DOMAIN fs THEN fs[name] ELSE "none"

\* If-Modified-Since of a GET: absent, or not older than the file
Conditionals == { "absent", "fresh" }

\* CacheHeaders for the html pages only
CacheHeaders_html_only(path) == path \in {"/", "/index.html", "/auto.html"}

\* Lines 63-69: whether end_headers adds the three cache-disabling headers
CacheHeaders(path) == path \in ALLOWED_FILES

\* SimpleHTTPRequestHandler.translate_path: the name in the served directory,
\* the query of the request path dropped
translate_path(path) ==
    IF path = "/index.html?x=1" THEN "/index.html" ELSE path

\* SimpleHTTPRequestHandler's answer for an existing regular file
SendFile(name, ims) ==
    IF ims = "fresh"
    THEN [status |-> 304, served |-> "none"]
    ELSE [status |-> 200, served |-> name]

\* Lines 59-61: list_directory answers 403
list_directory == [status |-> 403, served |-> "none"]

\* Line 33, super().do_GET() for a path of the allow-list: a directory without
\* the trailing slash is redirected, the directory "/" is answered with its
\* index.html or index.htm or else list_directory, a regular file is sent, and
\* anything else is 404.
send_head(path, ims) ==
    LET name == translate_path(path)
    IN  IF name = "/"
        THEN IF Kind("/index.html") = "file" THEN SendFile("/index.html", ims)
             ELSE IF Kind("/index.htm") = "file" THEN SendFile("/index.htm", ims)
             ELSE list_directory
        ELSE IF Kind(name) = "dir" THEN [status |-> 301, served |-> "none"]
        ELSE IF Kind(name) = "file" THEN SendFile(name, ims)
        ELSE [status |-> 404, served |-> "none"]

\* The entry of the directory a GET of path is answered from
Target(path) ==
    IF translate_path(path) = "/" THEN "/index.html" ELSE translate_path(path)

\* PathAllowed on the path with its query dropped
PathAllowed_query_dropped(path) == translate_path(path) \in ALLOWED_FILES

\* Line 31
PathAllowed(path) == path \in ALLOWED_FILES

\* Lines 30-36
do_GET(path, ims) ==
    IF PathAllowed(path)
    THEN send_head(path, ims)
    ELSE [status |-> 404, served |-> "none"]

\* Bodies of POST requests of the static server, as sent
LogBodies ==
    { "",
      "[]",
      "{}",
      "{\"level\":\"warn\",\"message\":\"hi\"}",
      "{\"level\":5,\"message\":\"hi\"}",
      "{\"message\":\"m\",\"extra\":{\"a\":1}}" }

\* json.loads of each of them
LogJsonLoads(raw) ==
    CASE raw = "" -> [t |-> "invalid", d |-> NoFields]
      [] raw = "[]" -> [t |-> "list", d |-> NoFields]
      [] raw = "{}" -> [t |-> "dict", d |-> NoFields]
      [] raw = "{\"level\":\"warn\",\"message\":\"hi\"}" ->
            [t |-> "dict", d |-> [level |-> JStr(<<"w","a","r","n">>),
                                  message |-> JStr(<<"h","i">>)]]
      [] raw = "{\"level\":5,\"message\":\"hi\"}" ->
            [t |-> "dict", d |-> [level |-> JInt(<<"5">>),
                                  message |-> JStr(<<"h","i">>)]]
      [] raw = "{\"message\":\"m\",\"extra\":{\"a\":1}}" ->
            [t |-> "dict",
             d |-> [message |-> JStr(<<"m">>),
                    \* s: what json.dumps gives for the value
                    extra |-> [t |-> "obj",
                               s |-> <<"{","\"","a","\"",":"," ","1","}">>]]]

\* POST requests: those of /log with their Content-Length, those of /log with
\* none or one that is no number, and one of every other path
PostRequests ==
    [path : {"/log"}, body : LogBodies, clen : {"exact"}, fails : BOOLEAN]
    \cup [path : {"/log"}, body : {"{}"}, clen : {"absent", "garbage"},
          fails : {FALSE}]
    \cup [path : RequestPaths \ {"/log"}, body : {"{}"}, clen : {"exact"},
          fails : {FALSE}]

\* Content-Length of a POST: the body's length, absent (0 is read), or not a number
\* Line 41: rfile.read(content_length)
ReadBody(raw, clen) == IF clen = "exact" THEN raw ELSE ""

\* time.strftime('%Y-%m-%d %H:%M:%S') and client_address[0], fixed
Stamp == <<"T">>
Client == <<"C">>

\* Lines 44-47
log_entry(d) ==
    Stamp \o <<" ","[">> \o Client \o <<"]"," ">>
    \o Upper(Get(d, "level", JStr(<<"I","N","F","O">>)).s) \o <<":"," ">>
    \o Format(Get(d, "message", JStr(<<>>))) \o NL
    \o (IF "extra" \in DOMAIN d
        THEN <<" "," "," "," "," "," ","E","x","t","r","a",":"," ">>
             \o d["extra"].s \o NL
        ELSE <<>>)

\* Lines 42-54: the try block.  TRUE when json.loads, data.get, .upper(),
\* open or write raises.
LogRaises(data, fails) ==
    \/ data.t # "dict"
    \/ Get(data.d, "level", JStr(<<"I","N","F","O">>)).t # "str"
    \/ fails

\* Lines 38-57.  status 0: int() raised at line 40, outside the try block, and
\* the connection is closed with no answer.
do_POST(path, raw, clen, fails, file) ==
    IF path = "/log"
    THEN IF clen = "garbage"
         THEN [status |-> 0, file |-> file]
         ELSE LET data == LogJsonLoads(ReadBody(raw, clen))
              IN  IF LogRaises(data, fails)
                  THEN [status |-> 400, file |-> file]
                  ELSE [status |-> 200, file |-> file \o log_entry(data.d)]
    ELSE [status |-> 404, file |-> file]

NoResponse == [method |-> "none", path |-> "", ims |-> "absent", body |-> "",
               clen |-> "exact", fails |-> FALSE, status |-> 0,
               served |-> "none", cache |-> FALSE, kind |-> "none",
               before |-> <<>>]

InitHttp ==
    /\ ALLOWED_FILES = AllowList
    /\ srvState = "Running"
    /\ clock = 0
    /\ fs \in [FsNames -> {"none", "file"}]
    /\ browserLog = <<>>
    /\ lastResp = NoResponse
    /\ handled = 0

\* serve_forever takes a request only while no shutdown was requested
Serving == srvState = "Running" /\ handled < MaxHandled

\* One GET request
DoGET(path, ims) ==
    /\ Serving
    /\ \E r \in {do_GET(path, ims)} :
           lastResp' = [NoResponse EXCEPT !.method = "GET", !.path = path,
                           !.ims = ims, !.status = r.status,
                           !.served = r.served, !.cache = CacheHeaders(path),
                           !.kind = Kind(Target(path)), !.before = browserLog]
    /\ handled' = handled + 1
    /\ UNCHANGED <<ALLOWED_FILES, srvState, clock, fs, browserLog>>
    /\ UNCHANGED lsVars

\* One POST request
DoPOST(path, raw, clen, fails) ==
    /\ Serving
    /\ \E r \in {do_POST(path, raw, clen, fails, browserLog)} :
           /\ browserLog' = r.file
           /\ lastResp' = [NoResponse EXCEPT !.method = "POST", !.path = path,
                              !.body = raw, !.clen = clen, !.fails = fails,
                              !.status = r.status,
                              !.cache = (r.status # 0 /\ CacheHeaders(path)),
                              !.before = browserLog]
    /\ handled' = handled + 1
    /\ UNCHANGED <<ALLOWED_FILES, srvState, clock, fs>>
    /\ UNCHANGED lsVars

\* The environment creates, removes or replaces an entry of the directory
FsChange(name, kind) ==
    /\ srvState # "Stopped"
    /\ fs[name] # kind
    /\ kind = "dir" => name = "/shapes.js"
    /\ fs' = [fs EXCEPT ![name] = kind]
    /\ UNCHANGED <<ALLOWED_FILES, srvState, clock, browserLog, lastResp, handled>>
    /\ UNCHANGED lsVars

\* A minute passes
Tick ==
    /\ srvState # "Stopped"
    /\ clock < MaxClock
    /\ clock' = clock + 1
    /\ UNCHANGED <<ALLOWED_FILES, srvState, fs, browserLog, lastResp, handled>>
    /\ UNCHANGED lsVars

\* The timer with time.sleep(TIMEOUT_MINUTES): seconds for minutes
shutdown_server_after_seconds ==
    /\ srvState = "Running"
    /\ srvState' = "ShuttingDown"
    /\ UNCHANGED <<ALLOWED_FILES, clock, fs, browserLog, lastResp, handled>>
    /\ UNCHANGED lsVars

\* Lines 75-79: time.sleep returns and the timer thread calls httpd.shutdown()
shutdown_server_after_timeout ==
    /\ srvState = "Running"
    /\ clock >= TIMEOUT_MINUTES
    /\ srvState' = "ShuttingDown"
    /\ UNCHANGED <<ALLOWED_FILES, clock, fs, browserLog, lastResp, handled>>
    /\ UNCHANGED lsVars

\* Line 85: serve_forever sees the shutdown request and returns
ServeForeverReturns ==
    /\ srvState = "ShuttingDown"
    /\ srvState' = "Stopped"
    /\ UNCHANGED <<ALLOWED_FILES, clock, fs, browserLog, lastResp, handled>>
    /\ UNCHANGED lsVars

\* Lines 86-87: KeyboardInterrupt ends serve_forever
KeyboardInterrupt ==
    /\ srvState # "Stopped"
    /\ srvState' = "Stopped"
    /\ UNCHANGED <<ALLOWED_FILES, clock, fs, browserLog, lastResp, handled>>
    /\ UNCHANGED lsVars

(***************************************************************************)
(* Specifications.                                                         *)
(***************************************************************************)
\* The static server does nothing in the behaviours of the log endpoint
IdleHttp ==
    /\ ALLOWED_FILES = AllowList
    /\ srvState = "Running"
    /\ clock = 0
    /\ fs = [n \in FsNames |-> "none"]
    /\ browserLog = <<>>
    /\ lastResp = NoResponse
    /\ handled = 0

\* and the other way round
IdleLogstream ==
    /\ LOGSTREAM_TOKEN = None
    /\ LOGSTREAM_TOKEN_CHECK = <<"1">>
    /\ logfile = <<>>
    /\ writes = 0
    /\ last = NoRequest
    /\ nreq = 0
    /\ n204 = 0
    /\ threads = NoThreads

Init == InitLogstream /\ IdleHttp

Next == \E header \in AuthHeaders, raw \in Bodies, fails \in BOOLEAN :
            Logstream(header, raw, fails)

\* POST /logstream, one request after the other
Spec == Init /\ [][Next]_vars

HttpInit == IdleLogstream /\ InitHttp

HttpNext ==
    \/ \E path \in RequestPaths, ims \in Conditionals : DoGET(path, ims)
    \/ \E q \in PostRequests : DoPOST(q.path, q.body, q.clen, q.fails)
    \/ \E name \in FsNames, kind \in {"none", "file", "dir"} : FsChange(name, kind)
    \/ Tick
    \/ shutdown_server_after_timeout
    \/ ServeForeverReturns
    \/ KeyboardInterrupt

ThreadInit == InitThreads /\ IdleHttp

ThreadNext ==
    \/ \E t \in 1..MaxThreads, header \in ThreadHeaders, raw \in ThreadBodies,
          fails \in BOOLEAN : Accept(t, header, raw, fails)
    \/ \E t \in 1..MaxThreads : WriteAll(t)
    \/ \E t \in 1..MaxThreads, k \in 1..MaxShort : WriteShort(t, k)
    \/ \E t \in 1..MaxThreads : Answer(t)

\* POST /logstream, requests handled at the same time
ThreadSpec == ThreadInit /\ [][ThreadNext]_vars

\* The static server
HttpSpec == HttpInit /\ [][HttpNext]_vars

\* The static server with its threads scheduled: time passes, the timer thread
\* runs when its sleep is over, and serve_forever polls the shutdown request.
HttpFairSpec ==
    /\ HttpInit
    /\ [][HttpNext]_vars
    /\ WF_vars(Tick)
    /\ WF_vars(shutdown_server_after_timeout)
    /\ WF_vars(ServeForeverReturns)

(***************************************************************************)
(* Properties of POST /logstream (Spec).                                   *)
(***************************************************************************)
\* The bearer token is enforced: the check is enabled and a secret is set
Enforced ==
    /\ token_check_enabled
    /\ LOGSTREAM_TOKEN # None
    /\ LOGSTREAM_TOKEN # <<>>

\* The header is exactly "Bearer <secret>"
ValidBearer(auth) == auth # None /\ auth = Bearer \o LOGSTREAM_TOKEN

\* The header is absent, does not start with "Bearer ", or carries another token
InvalidBearer(auth) ==
    \/ auth = None
    \/ ~StartsWith(auth, Bearer)
    \/ SubSeq(auth, Len(Bearer) + 1, Len(auth)) # LOGSTREAM_TOKEN

PassesTokenCheck(auth) == ~Enforced \/ ValidBearer(auth)

MalformedBodies == { "", "{\"message\": " }

ObjectBodies ==
    { "{}",
      "{\"timestamp\":\"2024-01-01T00:00:00Z\",\"level\":\"ERROR\",\"message\":\"boom\",\"page\":\"/x\",\"userAgent\":\"UA\"}",
      "{\"message\":\"a\\nb\"}",
      "{\"level\":null,\"message\":5}" }

\* C1: with the token check enabled and a non-empty secret, a request whose
\* Authorization header is absent, does not start with "Bearer " or carries
\* another token is answered 401 and leaves the log file as it was, whatever
\* its body is.
C1_Unauthorized ==
    (nreq > 0 /\ Enforced /\ InvalidBearer(last.auth))
        => (last.status = 401 /\ logfile = last.before)

\* A request with a wrong token and a malformed body, answered 401 after an
\* earlier request had written its line.
C1_Witness ==
    /\ nreq > 0
    /\ Enforced
    /\ last.auth = <<"B","e","a","r","e","r"," ","s","4">>
    /\ last.body \in MalformedBodies
    /\ last.status = 401
    /\ logfile # <<>>
    /\ logfile = last.before

\* C2: a request that passes the token check and whose body is not JSON is
\* answered 400 and appends nothing.
C2_BadRequest ==
    (nreq > 0 /\ PassesTokenCheck(last.auth) /\ last.body \in MalformedBodies)
        => (last.status = 400 /\ logfile = last.before)

\* A malformed body with the right token, answered 400.
C2_Witness ==
    /\ nreq > 0
    /\ Enforced
    /\ ValidBearer(last.auth)
    /\ last.body = "{\"message\": "
    /\ last.status = 400
    /\ logfile # <<>>
    /\ logfile = last.before

\* The text each object body is to append
ExpectedText(raw) ==
    CASE raw = "{}" ->
            <<" ","[","I","N","F","O","]"," "," ","|"," ","p","a","g","e","=",
              " ","|"," ","a","g","e","n","t","=","\n">>
      [] raw = "{\"timestamp\":\"2024-01-01T00:00:00Z\",\"level\":\"ERROR\",\"message\":\"boom\",\"page\":\"/x\",\"userAgent\":\"UA\"}" ->
            <<"2","0","2","4","-","0","1","-","0","1","T","0","0",":","0","0",
              ":","0","0","Z"," ","[","E","R","R","O","R","]"," ","b","o","o",
              "m"," ","|"," ","p","a","g","e","=","/","x"," ","|"," ","a","g",
              "e","n","t","=","U","A","\n">>
      [] raw = "{\"message\":\"a\\nb\"}" ->
            <<" ","[","I","N","F","O","]"," ","a","\n","b"," ","|"," ","p","a",
              "g","e","="," ","|"," ","a","g","e","n","t","=","\n">>
      [] raw = "{\"level\":null,\"message\":5}" ->
            <<" ","[","N","o","n","e","]"," ","5"," ","|"," ","p","a","g","e",
              "="," ","|"," ","a","g","e","n","t","=","\n">>
      [] OTHER -> <<>>

\* The object bodies none of whose values holds a newline
SingleLineBodies == ObjectBodies \ { "{\"message\":\"a\\nb\"}" }

DisablingToggles ==
    { <<"0">>, <<"n","o">>, <<"f","a","l","s","e">>, <<>>,
      <<" ","N","o"," ">>, <<"F","A","L","S","E","\n">> }

EnforcementOff ==
    \/ LOGSTREAM_TOKEN_CHECK \in DisablingToggles
    \/ LOGSTREAM_TOKEN = None
    \/ LOGSTREAM_TOKEN = <<>>

\* C8: enforcement is off exactly when the toggle, trimmed and lower-cased, is
\* "0", "no", "false" or "", or no non-empty secret is set; then no request is
\* answered 401; in every other configuration exactly the requests without
\* the right bearer token are answered 401.
C8_Toggle ==
    nreq > 0 =>
        /\ EnforcementOff => last.status # 401
        /\ ~EnforcementOff => (last.status = 401 <=> ~ValidBearer(last.auth))

\* A toggle written " No " switches enforcement off: no header, a secret, 204.
C8_Witness ==
    /\ nreq > 0
    /\ LOGSTREAM_TOKEN_CHECK = <<" ","N","o"," ">>
    /\ LOGSTREAM_TOKEN = <<"s","3">>
    /\ last.auth = None
    /\ last.status = 204

WholeLine(file, text) ==
    \E i \in 0..(Len(file) - Len(text)) :
        /\ SubSeq(file, i + 1, i + Len(text)) = text
        /\ i = 0 \/ file[i] = "\n"

\* C7: the line of every request answered 204 stands in the log file as one
\* contiguous, complete line, also when requests are handled at the same time.
C7_NoInterleaving ==
    \A t \in 1..MaxThreads :
        (threads[t].pc = "done" /\ threads[t].status = 204)
            => WholeLine(logfile, threads[t].text)

(***************************************************************************)
(* Properties of the static server (HttpSpec, HttpFairSpec).               *)
(***************************************************************************)
\* C4: a GET of a path that is not literally in the allow-list is answered 404
\* with no file content, whatever the directory holds, and the allow-list is
\* the one of line 12 in every state.
C4_Blocked ==
    /\ ALLOWED_FILES = AllowList
    /\ (lastResp.method = "GET" /\ lastResp.path \notin AllowList)
          => (lastResp.status = 404 /\ lastResp.served = "none")

\* A GET of /secret.txt, which exists, answered 404.
C4_Witness ==
    /\ lastResp.method = "GET"
    /\ lastResp.path = "/secret.txt"
    /\ lastResp.kind = "file"
    /\ lastResp.status = 404
    /\ lastResp.served = "none"

JsonLogBodies == LogBodies \ { "" }

\* C9: POST /log with a JSON body is answered 200 and its entry is appended;
\* with a body that fails to parse it is answered 400; a POST of another path
\* is answered 404; a 400 or 404 appends nothing; 400 is given for parse
\* failures only.
C9_Post ==
    (lastResp.method = "POST" /\ lastResp.clen = "exact")
        => /\ (lastResp.path = "/log" /\ lastResp.body \in JsonLogBodies)
                 => (lastResp.status = 200 /\ browserLog # lastResp.before)
           /\ (lastResp.path = "/log" /\ lastResp.body \notin JsonLogBodies)
                 => lastResp.status = 400
           /\ lastResp.path # "/log" => lastResp.status = 404
           /\ lastResp.status \in {400, 404} => browserLog = lastResp.before
           /\ lastResp.status = 400 => lastResp.body \notin JsonLogBodies

====
